---- MODULE Spec2Model ----
(***************************************************************************)
(* KP-Admin (src/main.py): a Streamlit script that fills the f100d_e PDF   *)
(* form, appends one row to the ledger assets/form_records.csv kept in a   *)
(* Forgejo repository and uploads the filled PDF to the same repository.   *)
(*                                                                         *)
(* Streamlit runs the whole script once per interaction of a browser       *)
(* session, each run in a thread of one server process: the sessions share *)
(* the working directory (hence OUTPUT_PDF) and the remote repository, and *)
(* their runs interleave at every file-system and HTTP call.               *)
(***************************************************************************)
EXTENDS Integers, Sequences, FiniteSets, TLC

(***************************************************************************)
(* Bounds of the model.                                                    *)
(***************************************************************************)
\* Submit runs (form_submit_button pressed) over all sessions.
MaxSubmits == 2

\* Browser sessions connected to the one Streamlit server.
Sessions == {"s1", "s2"}

\* Values typed into the "Name" and "Trainee Name" text inputs.
Names == {"Ann", "NA"}
Trainees == {"T1", "T2"}
Departments == {"Chem"}
Institutions == {"U"}

\* datetime.now().strftime("%Y-%m-%d"): all runs happen on one day.
Today == "2024-01-01"

(***************************************************************************)
(* HTTP status codes.  NoResponse stands for requests raising instead of   *)
(* returning a response.                                                   *)
(***************************************************************************)
HTTP_OK == 200
HTTP_CREATED == 201
HTTP_NOT_FOUND == 404
HTTP_CONFLICT == 409
HTTP_SERVER_ERROR == 500
NoResponse == 0

(***************************************************************************)
(* pandas: cells, read_csv, concat, to_csv.                                *)
(* A CSV text is its header line and its data lines, each a tuple of       *)
(* field texts (quoting is undone: to_csv quotes what read_csv unquotes).  *)
(***************************************************************************)
Columns == <<"name", "form", "signed_on">>

Str(s) == [t |-> "str", s |-> s]
NaN == [t |-> "nan", s |-> ""]

\* read_csv's default na_values (keep_default_na=True).
NaValues ==
  {"", "#N/A", "#N/A N/A", "#NA", "-1.#IND", "-1.#QNAN", "-NaN", "-nan",
   "1.#IND", "1.#QNAN", "<NA>", "N/A", "NA", "NULL", "NaN", "None", "n/a",
   "nan", "null"}

\* Type inference of read_csv on one column: NA texts become NaN and the
\* other texts stay str objects (no text of this model is a number, a boolean
\* or quoted, the cases where read_csv would convert further).
ParseColumn(texts) ==
  [i \in DOMAIN texts |->
     IF texts[i] \in NaValues THEN NaN ELSE Str(texts[i])]

None == [kind |-> "None"]
DataFrame(columns, rows) ==
  [kind |-> "DataFrame", columns |-> columns, rows |-> rows]

\* pd.read_csv(io.StringIO(text), header=0)
ReadCsv(text) ==
  LET nrows == Len(text.rows)
      ncols == Len(text.header)
      col(j) == ParseColumn([i \in 1..nrows |-> text.rows[i][j]])
  IN  DataFrame(text.header,
                [i \in 1..nrows |-> [j \in 1..ncols |-> col(j)[i]]])

\* pd.DataFrame([new_record])
NewRecordFrame(new_record) ==
  DataFrame(Columns, << [j \in 1..Len(Columns) |-> Str(new_record[Columns[j]])] >>)

\* pd.concat([df, other], ignore_index=True): a None is dropped silently;
\* the frames of the model have the same columns, so rows are stacked.
Concat(df, other) ==
  IF df = None THEN other
  ELSE DataFrame(df.columns, df.rows \o other.rows)

\* How to_csv writes one cell: a str as it is, NaN as na_rep=''.
CellToCsv(c) == IF c.t = "nan" THEN "" ELSE c.s

\* new_content.to_csv(index=False)
ToCsv(df) ==
  [header |-> df.columns,
   rows |-> [i \in 1..Len(df.rows) |->
               [j \in 1..Len(df.columns) |-> CellToCsv(df.rows[i][j])]]]

\* base64.b64encode(...) and the decoding the store applies to "content".
B64Encode(bytes) == <<"base64", bytes>>
B64Decode(encoded) == encoded[2]

(***************************************************************************)
(* The blob store behind the Forgejo content API (an external service).    *)
(* A path holds no blob or one blob; the revision token ("sha") of a blob  *)
(* is the hash of its content.                                             *)
(***************************************************************************)
Absent == [exists |-> FALSE]
Blob(content) == [exists |-> TRUE, content |-> content]
Sha(content) == [kind |-> "sha", of |-> content]

\* GET <repo_url>/raw/... and GET .../contents/<path> when the store answers.
StoreGet(blob) == IF blob.exists THEN HTTP_OK ELSE HTTP_NOT_FOUND

\* PUT .../contents/<path>: with a token, replace the blob if the token is the
\* current one; without a token, create the blob if the path is free.
StorePut(blob, content, sha) ==
  IF blob.exists
  THEN IF sha = Sha(blob.content)
       THEN [status |-> HTTP_OK, blob |-> Blob(content)]
       ELSE [status |-> HTTP_CONFLICT, blob |-> blob]
  ELSE IF sha = None
       THEN [status |-> HTTP_CREATED, blob |-> Blob(content)]
       ELSE [status |-> HTTP_CONFLICT, blob |-> blob]

\* POST .../contents/<path>: create only.
StoreCreate(blob, content) ==
  IF blob.exists
  THEN [status |-> HTTP_CONFLICT, blob |-> blob]
  ELSE [status |-> HTTP_CREATED, blob |-> Blob(content)]

\* A request that does not get through: an error response, or no response.
TransientFailures == {HTTP_SERVER_ERROR, NoResponse}

(***************************************************************************)
(* The script's own pure steps.                                            *)
(***************************************************************************)
INPUT_PDF == "assets/f100d_e_fillable.pdf"

\* list(fillpdfs.get_form_fields(INPUT_PDF).keys()): the template's fields,
\* named here after the inputs the script pairs them with, in order.
form_fields ==
  <<"trainee_name", "name", "department", "institution", "signature", "date">>

EmptyDict == [kind |-> "dict"]

\* for input_value, field in zip(inputs, form_fields): f100d_e[field] = value
ZipFields(inputs) ==
  [f \in {form_fields[i] : i \in 1..Len(inputs)} |->
     inputs[CHOOSE i \in 1..Len(inputs) : form_fields[i] = f]]

\* fillpdfs.write_fillable_pdf: the template with data_dict in its fields.
WriteFillablePdf(data_dict) == [template |-> INPUT_PDF, fields |-> data_dict]

NewRecord(name, date) == [name |-> name, form |-> "f100d_e", signed_on |-> date]

PdfRepoPath(name, date) ==
  "assets/filled_forms/f100d_e_" \o name \o "_" \o date \o ".pdf"

\* response.status_code in [200, 201], of update_repo_file and of post_to_repo.
PutOk_Below500(status) == status \in {HTTP_OK, HTTP_CREATED, HTTP_CONFLICT}
PutOk(status) == status \in {HTTP_OK, HTTP_CREATED}
PostOk_Below500(status) == status \in {HTTP_OK, HTTP_CREATED, HTTP_CONFLICT}
PostOk(status) == status \in {HTTP_OK, HTTP_CREATED}

\* Where the submit handler goes once update_repo_file has returned: to
\* post_to_repo, whatever was returned.
AfterUpdate_Retry(ok) == IF ok THEN "open_pdf" ELSE "put"
AfterUpdate(ok) == "open_pdf"

\* update_repo_file's "if sha": the token goes into the request only if set.
RequestSha(sha) == sha

(***************************************************************************)
(* State.                                                                  *)
(***************************************************************************)
Paths == {PdfRepoPath(n, Today) : n \in Names}

VARIABLES
  ledger,      \* the store's blob at assets/form_records.csv
  docs,        \* the store's blobs at the paths of assets/filled_forms/
  OUTPUT_PDF,  \* the local file assets/filled_form.pdf, one for all sessions
  submits,     \* submit runs started so far
  run          \* per session: the script run in progress and its locals

vars == <<ledger, docs, OUTPUT_PDF, submits, run>>

\* No run in progress.  f100d_e lives in st.session_state beyond the run, but
\* every key of it is overwritten before it is read again, and the other
\* fields are locals of the run (or records of its requests).
IdleRun ==
  [pc |-> "idle",
   f100d_e |-> EmptyDict,
   name |-> "",
   date |-> "",
   df |-> None,
   sha |-> None,
   record_success |-> FALSE,
   pdf_success |-> FALSE,
   pdf_content |-> Absent,
   read_status |-> NoResponse,  \* answer to fetch_records' GET
   read_blob |-> Absent,        \* the ledger blob that GET saw
   put_status |-> NoResponse,   \* answer to update_repo_file's PUT
   post_status |-> NoResponse,  \* answer to post_to_repo's POST
   puts |-> 0,                  \* PUT requests issued by this run
   posts |-> 0]                 \* POST requests issued by this run

\* The ledger at the start: not there yet, or as one earlier submission, on
\* an earlier day, left it.
Yesterday == "2023-12-31"
EarlierLedger == Blob(ToCsv(NewRecordFrame(NewRecord("Ann", Yesterday))))

Init ==
  /\ ledger \in {Absent, EarlierLedger}
  /\ docs = [p \in Paths |-> Absent]
  /\ OUTPUT_PDF = Absent
  /\ submits = 0
  /\ run = [s \in Sessions |-> IdleRun]

\* The script run of session s ends: normally, or on an uncaught exception.
EndRun(s) == run' = [run EXCEPT ![s] = IdleRun]

Goto(s, pc) == run' = [run EXCEPT ![s].pc = pc]

(***************************************************************************)
(* A script run, one action per file-system or HTTP call.                  *)
(***************************************************************************)

\* A run with the submit button pressed, up to write_fillable_pdf: the form
\* values go into f100d_e and the filled form into OUTPUT_PDF.
Submit(s) ==
  /\ run[s].pc = "idle"
  /\ submits < MaxSubmits
  /\ \E trainee_name \in Trainees, name \in Names,
        department \in Departments, institution \in Institutions :
       LET date == Today
           signature_text == name
           inputs == <<trainee_name, name, department, institution,
                       signature_text, date>>
           data == ZipFields(inputs)
       IN  /\ run' = [run EXCEPT ![s] =
                        [@ EXCEPT !.pc = "fetch_records", !.f100d_e = data,
                                  !.name = name, !.date = date]]
           /\ OUTPUT_PDF' = Blob(WriteFillablePdf(data))
  /\ submits' = submits + 1
  /\ UNCHANGED <<ledger, docs>>

\* df = fetch_records(); df = pd.concat([df, pd.DataFrame([new_record])]).
\* fetch_records returns the parsed table on 200 and None on anything else.
FetchRecords(s) ==
  /\ run[s].pc = "fetch_records"
  /\ \E status \in {StoreGet(ledger)} \cup TransientFailures :
       LET fetched == IF status = HTTP_OK THEN ReadCsv(ledger.content) ELSE None
           new_record == NewRecord(run[s].name, run[s].date)
       IN  run' = [run EXCEPT ![s] =
                     [@ EXCEPT !.pc = "get_sha",
                               !.df = Concat(fetched, NewRecordFrame(new_record)),
                               !.read_status = status,
                               !.read_blob = IF status = HTTP_OK THEN ledger
                                             ELSE Absent]]
  /\ UNCHANGED <<ledger, docs, OUTPUT_PDF, submits>>

\* update_repo_file, step 1: GET the file info for its sha (new_content is
\* always a DataFrame here, so the isinstance guard never returns).
GetSha(s) ==
  /\ run[s].pc = "get_sha"
  /\ \E status \in {StoreGet(ledger)} \cup TransientFailures :
       run' = [run EXCEPT ![s] =
                 IF status = HTTP_OK
                 THEN [@ EXCEPT !.pc = "put", !.sha = Sha(ledger.content)]
                 ELSE IF status = HTTP_NOT_FOUND
                 THEN [@ EXCEPT !.pc = "put", !.sha = None]
                 ELSE [@ EXCEPT !.pc = AfterUpdate(FALSE),
                                !.record_success = FALSE]]
  /\ UNCHANGED <<ledger, docs, OUTPUT_PDF, submits>>

\* update_repo_file, steps 2 to 5: the table as CSV, base64, PUT.  The table
\* is not read again: the model drops it, and the blob the read saw.
PutFile(s) ==
  /\ run[s].pc = "put"
  /\ LET content_base64 == B64Encode(ToCsv(run[s].df))
         stored == StorePut(ledger, B64Decode(content_base64),
                            RequestSha(run[s].sha))
     IN  \E answer \in {stored} \cup
                       {[status |-> f, blob |-> ledger] : f \in TransientFailures} :
           /\ ledger' = answer.blob
           /\ run' = [run EXCEPT ![s] =
                        [@ EXCEPT !.pc = AfterUpdate(PutOk(answer.status)),
                                  !.df = None,
                                  !.read_blob = Absent,
                                  !.record_success = PutOk(answer.status),
                                  !.put_status = answer.status,
                                  !.puts = @ + 1]]
  /\ UNCHANGED <<docs, OUTPUT_PDF, submits>>

\* post_to_repo: open(pdf_path, 'rb') and read; a missing file raises
\* FileNotFoundError, which nothing catches.  df, sha and the records of the
\* ledger requests are not read from here on: the model drops them.
OpenPdf(s) ==
  /\ run[s].pc = "open_pdf"
  /\ IF OUTPUT_PDF.exists
     THEN run' = [run EXCEPT ![s] =
                    [IdleRun EXCEPT !.pc = "post",
                                    !.f100d_e = run[s].f100d_e,
                                    !.name = run[s].name,
                                    !.date = run[s].date,
                                    !.record_success = run[s].record_success,
                                    !.puts = run[s].puts,
                                    !.pdf_content = Blob(OUTPUT_PDF.content)]]
     ELSE EndRun(s)
  /\ UNCHANGED <<ledger, docs, OUTPUT_PDF, submits>>

\* post_to_repo: POST the base64 content; requests raising is not caught.
PostFile(s) ==
  /\ run[s].pc = "post"
  /\ LET pdf_repo_path == PdfRepoPath(run[s].name, run[s].date)
         content == B64Encode(run[s].pdf_content.content)
         stored == StoreCreate(docs[pdf_repo_path], B64Decode(content))
     IN  \E answer \in {stored} \cup
                       {[status |-> f, blob |-> docs[pdf_repo_path]] :
                          f \in TransientFailures} :
           /\ docs' = [docs EXCEPT ![pdf_repo_path] = answer.blob]
           /\ IF answer.status = NoResponse
              THEN EndRun(s)
              ELSE run' = [run EXCEPT ![s] =
                             [@ EXCEPT !.pc = "download_check",
                                       !.pdf_success = PostOk(answer.status),
                                       !.post_status = answer.status,
                                       !.posts = @ + 1]]
  /\ UNCHANGED <<ledger, OUTPUT_PDF, submits>>

\* A run without a submit (page load, widget change) skips the form body.
Rerun(s) ==
  /\ run[s].pc = "idle"
  /\ Goto(s, "download_check")
  /\ UNCHANGED <<ledger, docs, OUTPUT_PDF, submits>>

\* if os.path.exists(OUTPUT_PDF): (the download button).  Nothing below this
\* line reads the locals of the form body: the model drops them here.
DownloadCheck(s) ==
  /\ run[s].pc = "download_check"
  /\ run' = [run EXCEPT ![s] =
               [IdleRun EXCEPT !.pc = IF OUTPUT_PDF.exists THEN "download_open"
                                      ELSE "cleanup_check"]]
  /\ UNCHANGED <<ledger, docs, OUTPUT_PDF, submits>>

\* with open(OUTPUT_PDF, "rb") as file: st.download_button(data=file)
DownloadOpen(s) ==
  /\ run[s].pc = "download_open"
  /\ IF OUTPUT_PDF.exists THEN Goto(s, "cleanup_check") ELSE EndRun(s)
  /\ UNCHANGED <<ledger, docs, OUTPUT_PDF, submits>>

\* if os.path.exists(OUTPUT_PDF): (the clean-up)
CleanupCheck(s) ==
  /\ run[s].pc = "cleanup_check"
  /\ IF OUTPUT_PDF.exists THEN Goto(s, "cleanup_remove") ELSE EndRun(s)
  /\ UNCHANGED <<ledger, docs, OUTPUT_PDF, submits>>

\* os.remove(OUTPUT_PDF): removes the file, or raises FileNotFoundError if
\* another run removed it since the check; the run is at its end either way.
CleanupRemove(s) ==
  /\ run[s].pc = "cleanup_remove"
  /\ OUTPUT_PDF' = Absent
  /\ EndRun(s)
  /\ UNCHANGED <<ledger, docs, submits>>

Next ==
  \E s \in Sessions :
       \/ Submit(s)
       \/ FetchRecords(s)
       \/ GetSha(s)
       \/ PutFile(s)
       \/ OpenPdf(s)
       \/ PostFile(s)
       \/ Rerun(s)
       \/ DownloadCheck(s)
       \/ DownloadOpen(s)
       \/ CleanupCheck(s)
       \/ CleanupRemove(s)

Spec == Init /\ [][Next]_vars

(***************************************************************************)
(* Properties.                                                             *)
(***************************************************************************)
\* The step is session s's PUT of the ledger (answered or not).
PutStep(s) == run[s].pc = "put" /\ run'[s].pc # "put"
\* The step is session s's POST of the document (answered or not).
PostStep(s) == run[s].pc = "post" /\ run'[s].pc # "post"
\* fetch_records got an answer from the store: the table, or "no such file".
ReadAnswered(s) == run[s].read_status \in {HTTP_OK, HTTP_NOT_FOUND}
CurrentToken(blob) == IF blob.exists THEN Sha(blob.content) ELSE None
TextRows(blob) == IF blob.exists THEN blob.content.rows ELSE <<>>
OwnDocument(s) == WriteFillablePdf(run[s].f100d_e)
OwnPath(s) == PdfRepoPath(run[s].name, run[s].date)
OwnRow(s) ==
  LET r == NewRecord(run[s].name, run[s].date)
  IN  [j \in 1..Len(Columns) |-> r[Columns[j]]]

\* C1: a ledger write that the store accepts was built from the ledger content
\* that is the store's current content at the write (a write built from content
\* that has been replaced since it was read is rejected).
C1_AcceptedWriteExtendsCurrentContent ==
  [][\A s \in Sessions :
       (PutStep(s) /\ ReadAnswered(s) /\ PutOk(run'[s].put_status))
         => run[s].read_blob = ledger]_vars

\* C2: a run whose read of the ledger failed with a transient error (no
\* response, or a response other than 200 and 404) issues no PUT to the ledger.
C2_FailedReadIssuesNoWrite ==
  [][\A s \in Sessions : PutStep(s) => ReadAnswered(s)]_vars

\* C3: a run whose ledger append failed (update_repo_file returned False)
\* issues no POST of the document.
C3_NoPublishAfterFailedAppend ==
  \A s \in Sessions : run[s].posts > 0 => run[s].record_success

\* C4: an append with no failure and no concurrent writer leaves a ledger that
\* reads back as the rows it had, unchanged and in order, followed by the new
\* row with its name, form and signed_on as submitted.
C4_AppendThenReadBack ==
  [][\A s \in Sessions :
       (PutStep(s) /\ ReadAnswered(s) /\ run[s].read_blob = ledger
          /\ PutOk(run'[s].put_status))
         => LET before == TextRows(ledger)
                after == ReadCsv(ledger'.content)
                n == Len(before)
            IN  /\ Len(after.rows) = n + 1
                /\ \A i \in 1..n : TextRows(ledger')[i] = before[i]
                /\ after.rows[n + 1] = [j \in 1..Len(Columns) |-> Str(OwnRow(s)[j])]]_vars

\* C5: a PUT of the ledger that carries a token other than the store's current
\* token leaves the ledger as it was, and update_repo_file returns False.
C5_StaleTokenRejected ==
  [][\A s \in Sessions :
       (PutStep(s) /\ run[s].sha # None /\ run[s].sha # CurrentToken(ledger))
         => ledger' = ledger /\ ~run'[s].record_success]_vars

\* A run whose PUT carried a stale token got Conflict and returned False.
C5_Witness ==
  \E s \in Sessions :
    /\ run[s].pc = "open_pdf"
    /\ run[s].put_status = HTTP_CONFLICT
    /\ run[s].sha # None
    /\ run[s].sha # CurrentToken(ledger)
    /\ ~run[s].record_success

\* C6: a POST of a document to a path that holds a blob leaves every stored
\* document as it was, and post_to_repo does not return True.
C6_PublishToExistingPathFails ==
  [][\A s \in Sessions :
       (PostStep(s) /\ docs[OwnPath(s)].exists)
         => docs' = docs /\ ~run'[s].pdf_success]_vars

\* A second submission under the same name and date, with another document,
\* got Conflict; the path still holds the first document.
C6_Witness ==
  \E s \in Sessions :
    /\ run[s].pc = "download_check"
    /\ run[s].post_status = HTTP_CONFLICT
    /\ ~run[s].pdf_success
    /\ docs[OwnPath(s)].exists
    /\ docs[OwnPath(s)] # run[s].pdf_content
    /\ run[s].pdf_content = Blob(OwnDocument(s))

\* C7: a POST that the store answers, to a path that holds no blob, succeeds
\* and leaves at that path the document filled from the run's own form values.
C7_PublishToFreePathStoresOwnDocument ==
  [][\A s \in Sessions :
       (PostStep(s) /\ ~docs[OwnPath(s)].exists
          /\ run'[s].pc = "download_check"
          /\ run'[s].post_status \notin TransientFailures)
         => run'[s].pdf_success /\ docs'[OwnPath(s)] = Blob(OwnDocument(s))]_vars

\* C8: a run issues at most one PUT of the ledger and at most one POST of the
\* document: when it is about to send one, it has sent none before.
C8_NoWriteRetried ==
  \A s \in Sessions :
    /\ run[s].puts <= 1
    /\ run[s].posts <= 1
    /\ run[s].pc = "put" => run[s].puts = 0
    /\ run[s].pc = "post" => run[s].posts = 0

\* A run whose PUT and POST both failed, each sent once.
C8_Witness ==
  \E s \in Sessions :
    /\ run[s].pc = "download_check"
    /\ run[s].puts = 1
    /\ run[s].posts = 1
    /\ ~run[s].record_success
    /\ ~run[s].pdf_success

\* C9: when a run opens OUTPUT_PDF to publish it, the file is there and holds
\* the document filled from the run's own form values, and so do the bytes
\* the run then uploads.
C9_TransientFileNotShared ==
  \A s \in Sessions :
    /\ run[s].pc = "open_pdf" => OUTPUT_PDF = Blob(OwnDocument(s))
    /\ run[s].pc = "post" => run[s].pdf_content = Blob(OwnDocument(s))

\* C10: a run whose read of the ledger found no file sends its PUT without a
\* token; if the PUT succeeds the ledger holds the run's row and nothing else,
\* and if the ledger exists by then the PUT fails and the ledger stays as it is.
C10_NotFoundStartsFromEmptyTable ==
  [][\A s \in Sessions :
       (PutStep(s) /\ run[s].read_status = HTTP_NOT_FOUND)
         => /\ run[s].sha = None
            /\ PutOk(run'[s].put_status) => TextRows(ledger') = <<OwnRow(s)>>
            /\ ledger.exists => (ledger' = ledger /\ ~PutOk(run'[s].put_status))]_vars

====
